---------------------------- MODULE Spec2Model ----------------------------
(***************************************************************************)
(* A model of dbfs, a ptrace debugger for x86_64 Linux.                    *)
(*                                                                         *)
(*   utils.rs       word-granular access to tracee memory                  *)
(*   breakpoint.rs  the software breakpoint (int3) engine                  *)
(*   main.rs        the command loop and the stop classification           *)
(*                                                                         *)
(* Tracee memory is a function from addresses 0 .. MemSize-1 to bytes.     *)
(* A machine word (usize / c_long, 64 bits) is kept as four 16-bit limbs,  *)
(* least significant first, so that to_ne_bytes / from_ne_bytes are real   *)
(* conversions on a little-endian target.                                  *)
(***************************************************************************)
EXTENDS Integers, Sequences, FiniteSets, TLC

\* ------------------------------------------------------------------------
\* Bounds of the model
\* ------------------------------------------------------------------------

\* Size of the tracee's mapped memory, in bytes (addresses 0 .. MemSize-1).
MemSize == 16

\* Longest buffer handed to write_data / longest read asked of read_data.
MaxLen == 9

\* ------------------------------------------------------------------------
\* Program constants
\* ------------------------------------------------------------------------

\* utils.rs: const WORD_SIZE: usize = size_of::<usize>()  (x86_64)
WORD_SIZE == 8

\* utils.rs, write_data: the slice buf[bytes_written..bytes_written + 4]
SLICE_LEN == 4

\* breakpoint.rs, write: the trap instruction int3 = 0xcc
TRAP == 204

\* ------------------------------------------------------------------------
\* Option and Result values
\* ------------------------------------------------------------------------

None == <<>>
Some(x) == <<x>>
IsSome(o) == o # <<>>
Unwrap(o) == o[1]

\* ------------------------------------------------------------------------
\* Words and bytes
\* ------------------------------------------------------------------------

\* [u8; WORD_SIZE] -> usize, native (little) endian
FromNeBytes(b) == [k \in 1 .. 4 |-> b[2 * k - 1] + 256 * b[2 * k]]

\* usize -> [u8; WORD_SIZE], native (little) endian
ToNeBytes(w) ==
    [i \in 1 .. WORD_SIZE |->
        IF i % 2 = 1 THEN w[(i + 1) \div 2] % 256
                     ELSE w[(i + 1) \div 2] \div 256]

\* The bytes of sequence s at 0-based offsets from .. to-1 (a Rust slice).
Slice(s, from, to) == [i \in 1 .. (to - from) |-> s[from + i]]

\* A word access at addr touches addr .. addr+WORD_SIZE-1; the kernel fails
\* the request unless the whole word is mapped.
WordMapped(addr) == addr >= 0 /\ addr + WORD_SIZE <= MemSize

\* ptrace::read(pid, addr): PTRACE_PEEKDATA. `ok` says that pid is a stopped
\* tracee of this debugger.
PtraceRead(m, ok, addr) ==
    IF ok /\ WordMapped(addr)
    THEN Some(FromNeBytes([i \in 1 .. WORD_SIZE |-> m[addr + i - 1]]))
    ELSE None

\* ptrace::write(pid, addr, data): PTRACE_POKEDATA. Yields the new memory.
PtraceWrite(m, ok, addr, w) ==
    IF ok /\ WordMapped(addr)
    THEN Some([a \in DOMAIN m |->
                 IF a >= addr /\ a < addr + WORD_SIZE
                 THEN ToNeBytes(w)[a - addr + 1]
                 ELSE m[a]])
    ELSE None

\* ------------------------------------------------------------------------
\* utils.rs: write_data
\* ------------------------------------------------------------------------

\* dst.copy_from_slice(src): panics unless the two lengths are equal.
CopyFromSlice(dst, src) ==
    IF Len(dst) = Len(src) THEN Some(src) ELSE None

\* A faulty overlay: the bytes of the word beyond the buffer are zeroed.
OverlayBad(present, buf, bytes_written, rest) ==
    [i \in 1 .. WORD_SIZE |-> IF i <= rest THEN buf[bytes_written + i] ELSE 0]

\* present_data[0..rest].copy_from_slice(&buf[bytes_written..])
Overlay(present, buf, bytes_written, rest) ==
    [i \in 1 .. WORD_SIZE |->
        IF i <= rest THEN buf[bytes_written + i] ELSE present[i]]

\* A faulty error count: the length of the buffer up to the failing word's end.
ErrBytesWrittenBad(m, bytes_written, rest) ==
    [tag |-> "Err", n |-> bytes_written + rest, mem |-> m]

\* .map_err(|_| bytes_written)
ErrBytesWritten(m, bytes_written, rest) ==
    [tag |-> "Err", n |-> bytes_written, mem |-> m]

\* The body of the loop of write_data, from iteration bytes_written on.
\* The result is Ok, Err(n) or Panic, with the memory the call leaves.
RECURSIVE WriteLoop(_, _, _, _, _)
WriteLoop(m, ok, addr, buf, bytes_written) ==
    IF bytes_written >= Len(buf)
    THEN [tag |-> "Ok", n |-> 0, mem |-> m]
    ELSE
      LET rest == Len(buf) - bytes_written IN
      IF rest > WORD_SIZE
      THEN
        LET zero == [i \in 1 .. WORD_SIZE |-> 0]
            data == CopyFromSlice(zero,
                        Slice(buf, bytes_written, bytes_written + SLICE_LEN))
        IN
        IF ~IsSome(data)
        THEN [tag |-> "Panic", n |-> 0, mem |-> m]
        ELSE
          LET w == PtraceWrite(m, ok, addr + bytes_written,
                               FromNeBytes(Unwrap(data)))
          IN
          IF ~IsSome(w)
          THEN ErrBytesWritten(m, bytes_written, rest)
          ELSE WriteLoop(Unwrap(w), ok, addr, buf, bytes_written + WORD_SIZE)
      ELSE
        LET present == PtraceRead(m, ok, addr + bytes_written) IN
        IF ~IsSome(present)
        THEN ErrBytesWritten(m, bytes_written, rest)
        ELSE
          LET data == Overlay(ToNeBytes(Unwrap(present)), buf,
                              bytes_written, rest)
              w == PtraceWrite(m, ok, addr + bytes_written, FromNeBytes(data))
          IN
          IF ~IsSome(w)
          THEN ErrBytesWritten(m, bytes_written, rest)
          ELSE WriteLoop(Unwrap(w), ok, addr, buf, bytes_written + WORD_SIZE)

write_data(m, ok, addr, buf) == WriteLoop(m, ok, addr, buf, 0)

\* ------------------------------------------------------------------------
\* utils.rs: read_data and read_data_fixed
\* ------------------------------------------------------------------------

\* &data.to_ne_bytes()[..rest]
Prefix(bytes, rest) == Slice(bytes, 0, rest)

\* The loop of read_data, from iteration bytes_read on, res being the
\* vector built so far. Yields Some(bytes) or None.
RECURSIVE ReadLoop(_, _, _, _, _, _)
ReadLoop(m, ok, addr, n, bytes_read, res) ==
    IF bytes_read >= n
    THEN Some(res)
    ELSE
      LET data == PtraceRead(m, ok, addr + bytes_read)
          rest == n - bytes_read
      IN
      IF ~IsSome(data)
      THEN None
      ELSE IF rest > WORD_SIZE
      THEN ReadLoop(m, ok, addr, n, bytes_read + WORD_SIZE,
                    res \o ToNeBytes(Unwrap(data)))
      ELSE ReadLoop(m, ok, addr, n, bytes_read + WORD_SIZE,
                    res \o Prefix(ToNeBytes(Unwrap(data)), rest))

read_data(m, ok, addr, n) == ReadLoop(m, ok, addr, n, 0, <<>>)

\* read_data_fixed::<N>: the same loop, into an array of N bytes.
read_data_fixed(m, ok, addr, N) == ReadLoop(m, ok, addr, N, 0, <<>>)

\* ------------------------------------------------------------------------
\* breakpoint.rs: Breakpoint
\* ------------------------------------------------------------------------

\* struct Breakpoint { thread, addr, saved_data: [u8; 1] }
Breakpoint(thread, addr, saved_data) ==
    [thread |-> thread, addr |-> addr, saved_data |-> saved_data]

\* Breakpoint::write: save the byte at addr, then write the trap over it.
\* Yields the Option returned, the breakpoint and the memory.
BpWrite(m, ok, bp) ==
    LET saved == read_data_fixed(m, ok, bp.addr, 1) IN
    IF ~IsSome(saved)
    THEN [ret |-> None, bp |-> bp, mem |-> m]
    ELSE
      LET bp2 == Breakpoint(bp.thread, bp.addr, Unwrap(saved))
          w == write_data(m, ok, bp.addr, <<TRAP>>)
      IN
      [ret |-> IF w.tag = "Ok" THEN Some(TRUE) ELSE None,
       bp |-> bp2, mem |-> w.mem]

\* Breakpoint::create: the result of write() is dropped and the breakpoint
\* is returned in every case.
BpCreate(m, ok, addr, thread) ==
    LET r == BpWrite(m, ok, Breakpoint(thread, addr, <<0>>)) IN
    [ret |-> Some(r.bp), mem |-> r.mem]

\* A faulty restore: the trap byte is written instead of the saved one.
BpRestoreDataBad(m, ok, bp) ==
    LET w == write_data(m, ok, bp.addr, <<TRAP>>) IN
    [ret |-> IF w.tag = "Ok" THEN Some(TRUE) ELSE None, mem |-> w.mem]

\* Breakpoint::restore_data: write the saved byte back.
BpRestoreData(m, ok, bp) ==
    LET w == write_data(m, ok, bp.addr, bp.saved_data) IN
    [ret |-> IF w.tag = "Ok" THEN Some(TRUE) ELSE None, mem |-> w.mem]

\* A faulty rewind: the registers are written back as they were read.
BpRestoreRipBad(ok, bp, regs_rip) ==
    [ret |-> IF ok THEN Some(TRUE) ELSE None, rip |-> regs_rip]

\* Breakpoint::restore_rip: getregs, regs.rip = addr, setregs.
BpRestoreRip(ok, bp, regs_rip) ==
    IF ok THEN [ret |-> Some(TRUE), rip |-> bp.addr]
          ELSE [ret |-> None, rip |-> regs_rip]

\* ------------------------------------------------------------------------
\* The traced program
\* ------------------------------------------------------------------------
\* main:  0  call f      (2 bytes)
\*        2  call f      (2 bytes)
\*        4  exit(3)     (1 byte)
\* f:     5  push        (1 byte)
\*        6  ret         (1 byte)
\* The rest of the mapping is padding (nop).

Program ==
    [a \in 0 .. 6 |->
        CASE a = 0 -> [kind |-> "call", len |-> 2, target |-> 5, byte |-> 232]
          [] a = 1 -> [kind |-> "none", len |-> 0, target |-> 0, byte |-> 5]
          [] a = 2 -> [kind |-> "call", len |-> 2, target |-> 5, byte |-> 232]
          [] a = 3 -> [kind |-> "none", len |-> 0, target |-> 0, byte |-> 5]
          [] a = 4 -> [kind |-> "exit", len |-> 1, target |-> 3, byte |-> 244]
          [] a = 5 -> [kind |-> "push", len |-> 1, target |-> 0, byte |-> 85]
          [] a = 6 -> [kind |-> "ret", len |-> 1, target |-> 0, byte |-> 195]]

Padding == [kind |-> "nop", len |-> 1, target |-> 0, byte |-> 144]

Instr(a) == IF a \in DOMAIN Program THEN Program[a] ELSE Padding

\* The program image: the bytes of the mapping after exec.
Image == [a \in 0 .. MemSize - 1 |-> Instr(a).byte]

\* Entry of f and the exit code of the program.
FEntry == Program[0].target
ExitCode == Program[4].target

\* What the processor finds at instruction pointer r in memory m.
Fetch(m, r) ==
    IF r \notin DOMAIN m THEN "segv"
    ELSE IF m[r] = TRAP THEN "trap"
    ELSE IF Instr(r).kind # "none"
            /\ \A i \in 0 .. Instr(r).len - 1 :
                  r + i \in DOMAIN m /\ m[r + i] = Image[r + i]
    THEN "instr"
    ELSE "ill"

\* wait statuses
NoStatus == [kind |-> "None", sig |-> "", code |-> 0]
Exited(code) == [kind |-> "Exited", sig |-> "", code |-> code]
Stopped(sig) == [kind |-> "Stopped", sig |-> sig, code |-> 0]
Signaled(sig) == [kind |-> "Signaled", sig |-> sig, code |-> 0]

\* A line of output: kind, and up to two numbers.
Line(kind, a, b) == [kind |-> kind, a |-> a, b |-> b]

\* ------------------------------------------------------------------------
\* State
\* ------------------------------------------------------------------------

VARIABLES
    \* main_loop
    pc,                     \* where the debugger is: "prompt", a wait, or ended
    child,                  \* Option<Pid>
    breakpoints,            \* Vec<Breakpoint>
    breakpoints_args,       \* Vec<BreakpointArg>
    hit_breakpoint_index,   \* Option<usize> (0-based)
    output,                 \* the lines printed by the command in progress
    \* the tracee
    mem,                    \* its memory
    rip,                    \* its instruction pointer (regs.rip)
    stack,                  \* its return addresses
    tstate,                 \* "none", "stopped", "running", "stepping", "dead"
    tpid,                   \* its pid (0: nothing launched yet)
    pending,                \* the wait status waitpid has not yet returned
    \* history
    lastHit,                \* address of the last breakpoint reported as hit
    nexec,                  \* executions of the instruction at lastHit since
    script,                 \* the operator's commands, while they follow Script
    reports,                \* the lines printed while they do
    \* calls of the memory accessor and the breakpoint engine on their own
    input,                  \* the arguments: [addr, buf]
    calls,                  \* the calls made and what they returned
    \* history of the tracee's stops, and launch_program step by step
    cause,                  \* address of the trap whose execution stopped it
    launch                  \* the forked child: where it is, what was done

vars == <<pc, child, breakpoints, breakpoints_args, hit_breakpoint_index,
          output, mem, rip, stack, tstate, tpid, pending, lastHit, nexec,
          script, reports, input, calls, cause, launch>>

sessionVars == <<pc, child, breakpoints_args, hit_breakpoint_index, output,
                 rip, stack, tpid, pending, lastHit, nexec, script, reports,
                 cause, launch>>

\* launch_program has not been entered: there is no forked child.
NotLaunched ==
    [cpc |-> "none", traced |-> FALSE, traceexec |-> FALSE, exists |-> TRUE,
     log |-> <<>>]

\* pid is a stopped tracee of the debugger: its trace requests succeed.
Traceable(pid) == tstate = "stopped" /\ pid = tpid

\* ------------------------------------------------------------------------
\* The tracee
\* ------------------------------------------------------------------------

\* One instruction of the tracee at instruction pointer r, with stack st:
\* where it leaves the instruction pointer and the stack, and what happened.
TraceeStep(m, r, st) ==
    LET f == Fetch(m, r)
        ins == Instr(r)
    IN
    IF f = "trap" THEN [rip |-> r + 1, stack |-> st, ev |-> "trap"]
    ELSE IF f # "instr" THEN [rip |-> r, stack |-> st, ev |-> "fault"]
    ELSE IF ins.kind = "call"
    THEN [rip |-> ins.target, stack |-> <<r + ins.len>> \o st, ev |-> "ok"]
    ELSE IF ins.kind = "ret"
    THEN IF st = <<>>
         THEN [rip |-> r, stack |-> st, ev |-> "fault"]
         ELSE [rip |-> st[1], stack |-> Tail(st), ev |-> "ok"]
    ELSE IF ins.kind = "exit"
    THEN [rip |-> r, stack |-> st, ev |-> "exit"]
    ELSE [rip |-> r + ins.len, stack |-> st, ev |-> "ok"]

\* The script of the scenario "one breakpoint at the entry of f; run,
\* continue, continue", and the history of the commands while they follow it.
Ev(cmd, arg) == <<cmd, arg>>
Off == <<Ev("off", <<>>)>>
Script ==
    <<Ev("breakpoint", <<"0", "x", "5">>), Ev("run", <<>>),
      Ev("continue", <<>>), Ev("continue", <<>>)>>

Track(ev) ==
    IF script # Off /\ Len(script) < Len(Script)
                    /\ Script[Len(script) + 1] = ev
    THEN Append(script, ev)
    ELSE Off

\* A command ev of the operator begins and prints lines.
Emit(ev, lines) ==
    /\ script' = Track(ev)
    /\ output' = lines
    /\ reports' = IF Track(ev) = Off THEN <<>> ELSE reports \o lines

\* The command in progress prints more lines.
EmitMore(lines) ==
    /\ script' = script
    /\ output' = output \o lines
    /\ reports' = IF script = Off THEN <<>> ELSE reports \o lines

\* Something happens that no command of the operator asked for.
Happens(ev) ==
    /\ script' = Track(ev)
    /\ output' = output
    /\ reports' = IF Track(ev) = Off THEN <<>> ELSE reports

\* The tracee executes one instruction.
TraceeExec ==
    /\ tstate \in {"running", "stepping"}
    /\ LET t == TraceeStep(mem, rip, stack) IN
       /\ rip' = t.rip
       /\ stack' = t.stack
       /\ tstate' = CASE t.ev = "exit" -> "dead"
                      [] t.ev \in {"trap", "fault"} -> "stopped"
                      [] OTHER -> IF tstate = "stepping" THEN "stopped"
                                                          ELSE "running"
       /\ pending' = CASE t.ev = "exit" -> Exited(ExitCode)
                       [] t.ev = "trap" -> Stopped("SIGTRAP")
                       [] t.ev = "fault" -> Stopped("SIGSEGV")
                       [] OTHER -> IF tstate = "stepping"
                                   THEN Stopped("SIGTRAP") ELSE NoStatus
       /\ nexec' = IF Fetch(mem, rip) = "instr" /\ lastHit = Some(rip)
                   THEN nexec + 1 ELSE nexec
       /\ cause' = IF t.ev = "trap" THEN Some(rip) ELSE None
    /\ UNCHANGED <<pc, child, breakpoints, breakpoints_args,
                   hit_breakpoint_index, output, mem, tpid, lastHit, script,
                   reports, input, calls, launch>>

\* A signal sent from outside stops the tracee before its next instruction.
TraceeSignal ==
    /\ tstate \in {"running", "stepping"}
    /\ tstate' = "stopped"
    /\ pending' = Stopped("SIGINT")
    /\ Happens(Ev("SIGINT", <<>>))
    /\ cause' = None
    /\ UNCHANGED <<pc, child, breakpoints, breakpoints_args,
                   hit_breakpoint_index, mem, rip, stack, tpid, lastHit,
                   nexec, input, calls, launch>>

\* A signal sent from outside kills the tracee.
TraceeKilled ==
    /\ tstate \in {"running", "stepping"}
    /\ tstate' = "dead"
    /\ pending' = Signaled("SIGKILL")
    /\ Happens(Ev("SIGKILL", <<>>))
    /\ cause' = None
    /\ UNCHANGED <<pc, child, breakpoints, breakpoints_args,
                   hit_breakpoint_index, mem, rip, stack, tpid, lastHit,
                   nexec, input, calls, launch>>

\* ------------------------------------------------------------------------
\* main.rs: BreakpointArg
\* ------------------------------------------------------------------------

HexDigits ==
    <<"0", "1", "2", "3", "4", "5", "6", "7", "8", "9",
      "a", "b", "c", "d", "e", "f">>

HexValue(c) == (CHOOSE k \in DOMAIN HexDigits : HexDigits[k] = c) - 1

IsHexDigit(c) == \E k \in DOMAIN HexDigits : HexDigits[k] = c

\* arg.starts_with("0x")
StartsWith0x(arg) == Len(arg) >= 2 /\ arg[1] = "0" /\ arg[2] = "x"

\* arg.trim_start_matches("0x"): every leading "0x" is removed.
RECURSIVE TrimStart0x(_)
TrimStart0x(arg) ==
    IF StartsWith0x(arg) THEN TrimStart0x(SubSeq(arg, 3, Len(arg))) ELSE arg

RECURSIVE DigitsValue(_, _)
DigitsValue(digits, acc) ==
    IF digits = <<>> THEN acc
    ELSE DigitsValue(Tail(digits), 16 * acc + HexValue(digits[1]))

\* usize::from_str_radix(s, 16): an optional "+", then one digit or more.
FromStrRadix16(str) ==
    LET digits == IF str # <<>> /\ str[1] = "+" THEN Tail(str) ELSE str IN
    IF digits = <<>> \/ \E k \in DOMAIN digits : ~IsHexDigit(digits[k])
    THEN None
    ELSE Some(DigitsValue(digits, 0))

\* BreakpointArg::parse: Some(Address(addr)), or the todo!() is reached.
BreakpointArgParse(arg) ==
    IF StartsWith0x(arg) /\ IsSome(FromStrRadix16(TrimStart0x(arg)))
    THEN [tag |-> "Address", addr |-> Unwrap(FromStrRadix16(TrimStart0x(arg)))]
    ELSE [tag |-> "todo", addr |-> 0]

\* BreakpointArg::to_address
ToAddress(arg) == arg.addr

\* ------------------------------------------------------------------------
\* main.rs: wait_and_check
\* ------------------------------------------------------------------------

\* The state a handler works on, and the lines it has printed.
Cur ==
    [pc |-> pc, child |-> child, breakpoints |-> breakpoints,
     hit |-> hit_breakpoint_index, mem |-> mem, rip |-> rip,
     tstate |-> tstate, lastHit |-> lastHit, nexec |-> nexec, out |-> <<>>]

\* A panic (a failed unwrap, todo!()) ends the debugger.
Panic(s) == [s EXCEPT !.pc = "panicked"]

Println(s, line) == [s EXCEPT !.out = @ \o <<line>>]

\* pid is a stopped tracee in state s.
TraceableIn(s, pid) == s.tstate = "stopped" /\ pid = tpid

\* breakpoints.iter().for_each(|bp| bp.restore_data().unwrap()), from the
\* i-th breakpoint on: ok is FALSE when an unwrap panicked.
RECURSIVE RestoreAll(_, _, _)
RestoreAll(s, m, i) ==
    IF i > Len(s.breakpoints) THEN [ok |-> TRUE, mem |-> m]
    ELSE
      LET bp == s.breakpoints[i]
          r == BpRestoreData(m, TraceableIn(s, bp.thread), bp)
      IN
      IF IsSome(r.ret) THEN RestoreAll(s, r.mem, i + 1)
                       ELSE [ok |-> FALSE, mem |-> r.mem]

\* breakpoints.iter().position(|bp| bp.addr == x): the first index, 0-based.
Position(bps, x) ==
    IF \E i \in DOMAIN bps : bps[i].addr = x
    THEN Some((CHOOSE i \in DOMAIN bps :
                  /\ bps[i].addr = x
                  /\ \A j \in DOMAIN bps : bps[j].addr = x => i <= j) - 1)
    ELSE None

\* A faulty trap address: the instruction pointer itself.
TrapAddrBad(regs_rip) == regs_rip

\* (regs.rip - 1): the address of the trap that has just been executed.
TrapAddr(regs_rip) == regs_rip - 1

\* The Stopped(_, SIGTRAP) arm of wait_and_check.
ClassifyTrap(s, pid) ==
    LET r == RestoreAll(s, s.mem, 1)
        s1 == [s EXCEPT !.mem = r.mem]
        found == Position(s.breakpoints, TrapAddr(s.rip))
    IN
    IF ~r.ok \/ ~TraceableIn(s, pid) THEN Panic(s1)
    ELSE IF IsSome(found)
    THEN
      LET bp == s.breakpoints[Unwrap(found) + 1]
          rr == BpRestoreRip(TraceableIn(s, bp.thread), bp, s.rip)
          s2 == Println(s1, Line("hit", Unwrap(found) + 1, bp.addr))
      IN
      IF ~IsSome(rr.ret) THEN Panic(s2)
      ELSE [s2 EXCEPT !.rip = rr.rip, !.hit = found,
                      !.lastHit = Some(bp.addr), !.nexec = 0]
    ELSE Println(s1, Line("interrupt", s.rip, 0))

\* A faulty Exited arm: the breakpoints of the dead tracee are kept.
ExitedArmBad(s, code) ==
    [Println(s, Line("exit", code, 0)) EXCEPT !.child = None]

\* The Exited(_, code) arm of wait_and_check.
ExitedArm(s, code) ==
    [Println(s, Line("exit", code, 0))
        EXCEPT !.child = None, !.breakpoints = <<>>]

\* wait_and_check(waitstatus, child, breakpoints, hit_breakpoint_index)
WaitAndCheck(ws, s) ==
    IF ~IsSome(s.child) THEN Panic(s)
    ELSE
      CASE ws.kind = "Exited" -> ExitedArm(s, ws.code)
        [] ws.kind = "Stopped" /\ ws.sig = "SIGTRAP" ->
             ClassifyTrap(s, Unwrap(s.child))
        [] ws.kind = "Stopped" /\ ws.sig # "SIGTRAP" ->
             Println(s, Line("stopped", 0, 0))
        [] ws.kind = "StillAlive" -> Panic(s)
        [] OTHER -> Println(s, Line("signaled", 0, 0))

\* ------------------------------------------------------------------------
\* main.rs: main_loop
\* ------------------------------------------------------------------------

\* Bounds: the pending requests kept, and the launches made.
MaxArgs == 2
MaxRuns == 2

\* The arguments the operator gives to the breakpoint command.
ArgStrings ==
    {<<"0", "x", "5">>, <<"0", "x", "4">>, <<"0", "x", "1", "0">>,
     <<"m", "a", "i", "n">>}

\* breakpoints_args.iter().map(|el| Breakpoint::create(..).unwrap()).collect()
\* from the i-th request on, in a tracee pid that is stopped after exec.
RECURSIVE InstallAll(_, _, _, _, _)
InstallAll(m, args, pid, i, bps) ==
    IF i > Len(args) THEN [mem |-> m, bps |-> bps]
    ELSE
      LET r == BpCreate(m, TRUE, ToAddress(args[i]), pid) IN
      InstallAll(r.mem, args, pid, i + 1, Append(bps, Unwrap(r.ret)))

\* breakpoints.iter_mut().enumerate().for_each(|(i, bp)| if i != index
\* { bp.write().unwrap() }), from the i-th breakpoint on (index 0-based, -1
\* for none): ok is FALSE when an unwrap panicked.
RECURSIVE WriteAll(_, _, _)
WriteAll(s, index, i) ==
    IF i > Len(s.breakpoints) THEN [ok |-> TRUE, s |-> s]
    ELSE IF i - 1 = index THEN WriteAll(s, index, i + 1)
    ELSE
      LET bp == s.breakpoints[i]
          r == BpWrite(s.mem, TraceableIn(s, bp.thread), bp)
          s1 == [s EXCEPT !.mem = r.mem, !.breakpoints[i] = r.bp]
      IN
      IF IsSome(r.ret) THEN WriteAll(s1, index, i + 1)
                       ELSE [ok |-> FALSE, s |-> s1]

\* The handler leaves state s (the tracee's stack, pid and wait status and
\* the pending requests are set by the action itself).
Leave(s) ==
    /\ pc' = s.pc
    /\ child' = s.child
    /\ breakpoints' = s.breakpoints
    /\ hit_breakpoint_index' = s.hit
    /\ mem' = s.mem
    /\ rip' = s.rip
    /\ tstate' = s.tstate
    /\ lastHit' = s.lastHit
    /\ nexec' = s.nexec

\* "breakpoint" with no argument: the usage line.
CmdBreakpointUsage ==
    /\ pc = "prompt"
    /\ Emit(Ev("breakpoint", <<>>), <<Line("usage", 0, 0)>>)
    /\ UNCHANGED <<pc, child, breakpoints, breakpoints_args,
                   hit_breakpoint_index, mem, rip, stack, tstate, tpid,
                   pending, lastHit, nexec, input, calls,
                   cause, launch>>

\* "breakpoint <arg>"
CmdBreakpoint(arg) ==
    /\ pc = "prompt"
    /\ Len(breakpoints_args) < MaxArgs
    /\ LET parsed == BreakpointArgParse(arg) IN
       IF parsed.tag = "Address"
       THEN /\ breakpoints_args' = Append(breakpoints_args, parsed)
            /\ pc' = pc
            /\ Emit(Ev("breakpoint", arg),
                    <<Line("added", Len(breakpoints_args) + 1, 0)>>)
       ELSE /\ breakpoints_args' = breakpoints_args
            /\ pc' = "panicked"
            /\ Emit(Ev("breakpoint", arg), <<>>)
    /\ UNCHANGED <<child, breakpoints, hit_breakpoint_index, mem, rip, stack,
                   tstate, tpid, pending, lastHit, nexec, input, calls,
                   cause, launch>>

\* A faulty "run" while a tracee exists: the line is printed and the launch
\* is made all the same.
CmdRunAlreadyBad ==
    /\ pc = "prompt"
    /\ IsSome(child)
    /\ tpid < MaxRuns
    /\ LET pid == tpid + 1
           inst == InstallAll(Image, breakpoints_args, pid, 1, <<>>)
       IN
       /\ tpid' = pid
       /\ breakpoints' = inst.bps
       /\ mem' = inst.mem
       /\ child' = Some(pid)
    /\ rip' = 0
    /\ stack' = <<>>
    /\ tstate' = "running"
    /\ pending' = NoStatus
    /\ pc' = "wait_run"
    /\ lastHit' = None
    /\ nexec' = 0
    /\ Emit(Ev("run", <<>>), <<Line("already_running", 0, 0)>>)
    /\ UNCHANGED <<breakpoints_args, hit_breakpoint_index, input, calls,
                   cause, launch>>

\* "run" while a tracee exists
CmdRunAlready ==
    /\ pc = "prompt"
    /\ IsSome(child)
    /\ Emit(Ev("run", <<>>), <<Line("already_running", 0, 0)>>)
    /\ UNCHANGED <<pc, child, breakpoints, breakpoints_args,
                   hit_breakpoint_index, mem, rip, stack, tstate, tpid,
                   pending, lastHit, nexec, input, calls,
                   cause, launch>>

\* "run" when fork fails: launch_program returns Err(errno)
CmdRunForkFails ==
    /\ pc = "prompt"
    /\ ~IsSome(child)
    /\ Emit(Ev("run: fork fails", <<>>), <<Line("launch_error", 0, 0)>>)
    /\ UNCHANGED <<pc, child, breakpoints, breakpoints_args,
                   hit_breakpoint_index, mem, rip, stack, tstate, tpid,
                   pending, lastHit, nexec, input, calls,
                   cause, launch>>

\* "run": launch_program returns the pid of a tracee stopped after exec;
\* the breakpoints are installed and the tracee is resumed. The debugger
\* then waits (main.rs:201).
CmdRun ==
    /\ pc = "prompt"
    /\ ~IsSome(child)
    /\ tpid < MaxRuns
    /\ LET pid == tpid + 1
           inst == InstallAll(Image, breakpoints_args, pid, 1, <<>>)
       IN
       /\ tpid' = pid
       /\ breakpoints' = inst.bps
       /\ mem' = inst.mem
       /\ child' = Some(pid)
    /\ rip' = 0
    /\ stack' = <<>>
    /\ tstate' = "running"
    /\ pending' = NoStatus
    /\ pc' = "wait_run"
    /\ lastHit' = None
    /\ nexec' = 0
    /\ Emit(Ev("run", <<>>), <<>>)
    /\ UNCHANGED <<breakpoints_args, hit_breakpoint_index, input, calls,
                   cause, launch>>

\* "continue" / "stepi" with no tracee
CmdNoProgram(cmd) ==
    /\ pc = "prompt"
    /\ ~IsSome(child)
    /\ Emit(Ev(cmd, <<>>), <<Line("no_program", 0, 0)>>)
    /\ UNCHANGED <<pc, child, breakpoints, breakpoints_args,
                   hit_breakpoint_index, mem, rip, stack, tstate, tpid,
                   pending, lastHit, nexec, input, calls,
                   cause, launch>>

\* The common part of "continue" and "stepi" up to the resume or step:
\* the traps are written, then ptrace::step (in Breakpoint::run, or for a
\* stepi) or ptrace::cont is issued, and the debugger waits.
Resume(s, cmd) ==
    LET hit == IsSome(s.hit)
        index == IF hit THEN Unwrap(s.hit) ELSE 0 - 1
        w == WriteAll(s, index, 1)
        pid == Unwrap(s.child)
    IN
    IF ~w.ok THEN Panic(w.s)
    ELSE IF hit
    THEN IF index + 1 \notin DOMAIN s.breakpoints
            \/ ~TraceableIn(s, s.breakpoints[index + 1].thread)
         THEN Panic(w.s)
         ELSE [w.s EXCEPT !.tstate = "stepping",
                          !.pc = IF cmd = "continue" THEN "wait_bp_run_cont"
                                                     ELSE "wait_bp_run_stepi"]
    ELSE IF ~TraceableIn(s, pid) THEN Panic(w.s)
    ELSE IF cmd = "continue"
    THEN [w.s EXCEPT !.tstate = "running", !.pc = "wait_cont"]
    ELSE [w.s EXCEPT !.tstate = "stepping", !.pc = "wait_stepi"]

\* "continue"
CmdContinue ==
    /\ pc = "prompt"
    /\ IsSome(child)
    /\ Leave(Resume(Cur, "continue"))
    /\ Emit(Ev("continue", <<>>), <<>>)
    /\ UNCHANGED <<breakpoints_args, stack, tpid, pending, input, calls,
                   cause, launch>>

\* "stepi"
CmdStepi ==
    /\ pc = "prompt"
    /\ IsSome(child)
    /\ Leave(Resume(Cur, "stepi"))
    /\ Emit(Ev("stepi", <<>>), <<>>)
    /\ UNCHANGED <<breakpoints_args, stack, tpid, pending, input, calls,
                   cause, launch>>

\* A faulty clearing of the hit index: it is kept.
ClearHitBad(s) == s

\* hit_breakpoint_index = None (main.rs:222, 271)
ClearHit(s) == [s EXCEPT !.hit = None]

\* Breakpoint::run after its waitpid (breakpoint.rs:62) has returned ws:
\* self.write(), then back in main_loop the hit index is cleared and
\* "continue" resumes the tracee, while "stepi" classifies a stop. The
\* source binds the status stepi classifies to the value of run()
\* (main.rs:270), which is of type Option<()> and holds no wait status; the
\* only status there is to classify is the one run's waitpid returned, and
\* that is what is classified here.
AfterBpRun(s, ws) ==
    LET index == Unwrap(s.hit)
        bp == s.breakpoints[index + 1]
        r == BpWrite(s.mem, TraceableIn(s, bp.thread), bp)
        s1 == [s EXCEPT !.mem = r.mem, !.breakpoints[index + 1] = r.bp]
        s2 == ClearHit(s1)
    IN
    IF ~IsSome(r.ret) THEN Panic(s1)
    ELSE IF s.pc = "wait_bp_run_cont"
    THEN IF ~TraceableIn(s, Unwrap(s.child)) THEN Panic(s2)
         ELSE [s2 EXCEPT !.tstate = "running", !.pc = "wait_cont"]
    ELSE WaitAndCheck(ws, [s2 EXCEPT !.pc = "prompt"])

BpRunReturn ==
    /\ pc \in {"wait_bp_run_cont", "wait_bp_run_stepi"}
    /\ pending # NoStatus
    /\ LET s == AfterBpRun(Cur, pending) IN
       /\ Leave(s)
       /\ EmitMore(s.out)
    /\ pending' = NoStatus
    /\ UNCHANGED <<breakpoints_args, stack, tpid, input, calls,
                   cause, launch>>

\* waitpid in main_loop returns and the stop is classified.
WaitReturn ==
    /\ pc \in {"wait_run", "wait_cont", "wait_stepi"}
    /\ pending # NoStatus
    /\ LET s == WaitAndCheck(pending, [Cur EXCEPT !.pc = "prompt"]) IN
       /\ Leave(s)
       /\ EmitMore(s.out)
    /\ pending' = NoStatus
    /\ UNCHANGED <<breakpoints_args, stack, tpid, input, calls,
                   cause, launch>>

\* "info" with no argument, or with one that is not "registers"
CmdInfoOther(arg) ==
    /\ pc = "prompt"
    /\ Emit(Ev("info", arg),
            <<Line(IF arg = <<>> THEN "usage" ELSE "no_info", 0, 0)>>)
    /\ UNCHANGED <<pc, child, breakpoints, breakpoints_args,
                   hit_breakpoint_index, mem, rip, stack, tstate, tpid,
                   pending, lastHit, nexec, input, calls,
                   cause, launch>>

\* "info registers"
CmdInfoRegisters ==
    /\ pc = "prompt"
    /\ IF ~IsSome(child)
       THEN /\ pc' = pc
            /\ Emit(Ev("info", <<"registers">>), <<Line("no_program", 0, 0)>>)
       ELSE IF Traceable(Unwrap(child))
       THEN /\ pc' = pc
            /\ Emit(Ev("info", <<"registers">>), <<Line("regs", rip, 0)>>)
       ELSE /\ pc' = "panicked"
            /\ Emit(Ev("info", <<"registers">>), <<>>)
    /\ UNCHANGED <<child, breakpoints, breakpoints_args,
                   hit_breakpoint_index, mem, rip, stack, tstate, tpid,
                   pending, lastHit, nexec, input, calls,
                   cause, launch>>

\* Any other command
CmdUnknown ==
    /\ pc = "prompt"
    /\ Emit(Ev("unknown", <<>>), <<Line("unknown", 0, 0)>>)
    /\ UNCHANGED <<pc, child, breakpoints, breakpoints_args,
                   hit_breakpoint_index, mem, rip, stack, tstate, tpid,
                   pending, lastHit, nexec, input, calls,
                   cause, launch>>

\* An empty line with no tracee: exit(0)
CmdEmptyExit ==
    /\ pc = "prompt"
    /\ ~IsSome(child)
    /\ pc' = "exited"
    /\ Emit(Ev("", <<>>), <<>>)
    /\ UNCHANGED <<child, breakpoints, breakpoints_args,
                   hit_breakpoint_index, mem, rip, stack, tstate, tpid,
                   pending, lastHit, nexec, input, calls,
                   cause, launch>>

\* An empty line with a tracee: prompt_force_close, answered y or n
\* (any other answer asks again).
CmdEmptyForceClose(answer) ==
    /\ pc = "prompt"
    /\ IsSome(child)
    /\ pc' = IF answer = "n" THEN pc
             ELSE IF Traceable(Unwrap(child)) THEN "exited" ELSE "panicked"
    /\ tstate' = IF answer = "y" /\ Traceable(Unwrap(child)) THEN "dead"
                                                              ELSE tstate
    /\ Emit(Ev("", <<answer>>), <<Line("quit?", 0, 0)>>)
    /\ UNCHANGED <<child, breakpoints, breakpoints_args,
                   hit_breakpoint_index, mem, rip, stack, tpid, pending,
                   lastHit, nexec, input, calls,
                   cause, launch>>

Init ==
    /\ pc = "prompt"
    /\ child = None
    /\ breakpoints = <<>>
    /\ breakpoints_args = <<>>
    /\ hit_breakpoint_index = None
    /\ output = <<>>
    /\ mem = Image
    /\ rip = 0
    /\ stack = <<>>
    /\ tstate = "none"
    /\ tpid = 0
    /\ pending = NoStatus
    /\ lastHit = None
    /\ nexec = 0
    /\ script = <<>>
    /\ reports = <<>>
    /\ input = [addr |-> 0, buf |-> <<>>]
    /\ calls = <<>>
    /\ cause = None
    /\ launch = NotLaunched

Next ==
    \/ CmdBreakpointUsage
    \/ \E arg \in ArgStrings : CmdBreakpoint(arg)
    \/ CmdRunAlready
    \/ CmdRunForkFails
    \/ CmdRun
    \/ \E cmd \in {"continue", "stepi"} : CmdNoProgram(cmd)
    \/ CmdContinue
    \/ CmdStepi
    \/ BpRunReturn
    \/ WaitReturn
    \/ \E arg \in {<<>>, <<"breakpoints">>} : CmdInfoOther(arg)
    \/ CmdInfoRegisters
    \/ CmdUnknown
    \/ CmdEmptyExit
    \/ \E answer \in {"y", "n"} : CmdEmptyForceClose(answer)
    \/ TraceeExec
    \/ TraceeSignal
    \/ TraceeKilled

Spec == Init /\ [][Next]_vars

\* ------------------------------------------------------------------------
\* Properties of the session
\* ------------------------------------------------------------------------

\* The debugger is at its prompt, ready to accept a command.
AtPrompt == pc = "prompt"

\* The last line printed by the last command, if any.
LastLine == IF output = <<>> THEN Line("", 0, 0) ELSE output[Len(output)]

\* The last command ended by classifying a stop with the trap signal.
TrapClassified == AtPrompt /\ LastLine.kind \in {"hit", "interrupt"}

\* C1: whenever the trap byte is in tracee memory at a breakpoint's address,
\* the breakpoint's saved byte is the original program byte at that address.
C1_SavedByte ==
    \A i \in DOMAIN breakpoints :
        (/\ breakpoints[i].addr \in DOMAIN mem
         /\ mem[breakpoints[i].addr] = TRAP)
        => breakpoints[i].saved_data = <<Image[breakpoints[i].addr]>>

\* C2: after a stop with the trap signal has been classified, tracee memory
\* holds the original program byte at the address of every breakpoint.
C2_TrapStopRestores ==
    TrapClassified
    => \A i \in DOMAIN breakpoints :
          /\ breakpoints[i].addr \in DOMAIN mem
          /\ mem[breakpoints[i].addr] = Image[breakpoints[i].addr]

\* C3: when continue resumes the tracee freely after a hit at X (the step
\* of Breakpoint::run has ended with the trap signal and ptrace::cont is
\* issued), the instruction originally at X has been executed exactly once
\* since the hit was reported and the trap is back in memory at X.
C3_SingleReexecution ==
    [][(/\ pc = "wait_bp_run_cont"
        /\ pending = Stopped("SIGTRAP")
        /\ pc' = "wait_cont")
        => /\ nexec' = 1
           /\ mem'[breakpoints[Unwrap(hit_breakpoint_index) + 1].addr] = TRAP
      ]_vars

\* C4: when a command is accepted after a breakpoint at X was reported as
\* hit, the tracee is stopped with its instruction pointer at X and has
\* executed nothing since the report.
C4_RipAtHit ==
    /\ (AtPrompt /\ LastLine.kind = "hit")
       => /\ rip = LastLine.b
          /\ hit_breakpoint_index = Some(LastLine.a - 1)
    /\ (AtPrompt /\ IsSome(hit_breakpoint_index))
       => /\ IsSome(child)
          /\ Unwrap(hit_breakpoint_index) + 1 \in DOMAIN breakpoints
          /\ rip = breakpoints[Unwrap(hit_breakpoint_index) + 1].addr
          /\ tstate = "stopped"
          /\ nexec = 0

\* A hit at the entry of f has been reported, the trap there having been
\* executed, and the debugger is at its prompt.
C4_Witness ==
    /\ AtPrompt
    /\ LastLine = Line("hit", 1, FEntry)
    /\ rip = FEntry
    /\ stack # <<>>

\* C5: with one breakpoint at the entry of f, which the program calls twice,
\* run, continue, continue print two hit reports for that breakpoint, then
\* the exit report with the exit code, and leave the session with no tracee.
C5_RepeatedHits ==
    (script = Script /\ AtPrompt)
    => /\ reports = <<Line("added", 1, 0), Line("hit", 1, FEntry),
                      Line("hit", 1, FEntry), Line("exit", ExitCode, 0)>>
       /\ child = None
       /\ breakpoints = <<>>

\* The three commands of the scenario have been carried out.
C5_Witness ==
    /\ script = Script
    /\ AtPrompt
    /\ tstate = "dead"

\* C9: no breakpoint is in the session's sequence whose initial read of the
\* byte at its address failed (the word at its address cannot be read).
C9_InstallFails ==
    \A i \in DOMAIN breakpoints : WordMapped(breakpoints[i].addr)

\* A wait status is handed to wait_and_check and the prompt comes back.
Classified ==
    /\ pc \in {"wait_run", "wait_cont", "wait_stepi", "wait_bp_run_stepi"}
    /\ pc' = "prompt"

C12_TraceeValid ==
    (AtPrompt /\ IsSome(child)) =>
        /\ tstate = "stopped"
        /\ Unwrap(child) = tpid

\* A 0x-prefixed hexadecimal address: 0x, then one hexadecimal digit or more.
ValidHexArg(arg) ==
    /\ Len(arg) > 2
    /\ arg[1] = "0" /\ arg[2] = "x"
    /\ \A i \in 3 .. Len(arg) : IsHexDigit(arg[i])

\* C15: a breakpoint command whose argument is not a 0x-prefixed hexadecimal
\* address prints that the argument is invalid, adds no request, changes
\* nothing in the session or the tracee, and leaves the debugger at its
\* prompt for the next command.
C15_MalformedArg ==
    [][\A arg \in ArgStrings :
          (~ValidHexArg(arg) /\ CmdBreakpoint(arg)) =>
              /\ pc' = "prompt"
              /\ LastLine'.kind = "invalid"
              /\ UNCHANGED <<child, breakpoints, breakpoints_args,
                             hit_breakpoint_index, mem, rip, tstate>>
      ]_vars

\* C16: run while a tracee exists, continue and stepi while none exists,
\* info registers in any state, and an unknown command leave the tracee held,
\* the breakpoints, the pending requests, the hit index and the tracee's
\* memory and registers as they were, and neither resume nor step the tracee.
C16_NoEffect ==
    [][(\/ CmdRunAlready
        \/ \E cmd \in {"continue", "stepi"} : CmdNoProgram(cmd)
        \/ CmdInfoRegisters
        \/ CmdUnknown) =>
           UNCHANGED <<child, breakpoints, breakpoints_args,
                       hit_breakpoint_index, mem, rip, stack, tstate,
                       pending>>
      ]_vars

\* run has been refused in a session stopped at a breakpoint.
C16_Witness ==
    /\ AtPrompt
    /\ LastLine.kind = "already_running"
    /\ IsSome(hit_breakpoint_index)
    /\ tstate = "stopped"

\* The trap byte is in memory m at address a.
TrapAt(m, a) == a \in DOMAIN m /\ m[a] = TRAP

\* C17: when continue starts the single step of the breakpoint last hit, the
\* trap is absent at that breakpoint's address and present at every other
\* breakpoint address; and whenever the tracee is let run freely (by run, by
\* continue, or after that single step) the trap is present at the address
\* of every breakpoint.
C17_RearmOrder ==
    [][/\ (pc = "prompt" /\ pc' = "wait_bp_run_cont") =>
            LET at == breakpoints'[Unwrap(hit_breakpoint_index) + 1].addr IN
            /\ ~TrapAt(mem', at)
            /\ \A j \in DOMAIN breakpoints' :
                  breakpoints'[j].addr # at =>
                      TrapAt(mem', breakpoints'[j].addr)
       /\ (tstate # "running" /\ tstate' = "running") =>
            \A j \in DOMAIN breakpoints' : TrapAt(mem', breakpoints'[j].addr)
      ]_vars

\* C18: when the single step that stepi makes from a breakpoint hit has
\* executed one instruction (no trap, no signal from outside), that is the
\* original instruction at the breakpoint's address, executed once; the
\* debugger is back at its prompt with no hit index, the tracee is stopped
\* and its instruction pointer is where the step left it, at the successor.
C18_StepiFromHit ==
    [][(/\ pc = "wait_bp_run_stepi"
        /\ pending = Stopped("SIGTRAP")
        /\ cause = None) =>
           /\ nexec = 1
           /\ pc' = "prompt"
           /\ hit_breakpoint_index' = None
           /\ rip' = rip
           /\ tstate' = "stopped"
      ]_vars

\* The hit index, when there is one, names a breakpoint of a live, stopped
\* tracee whose instruction pointer is at that breakpoint's address.
HitIndexValid ==
    (AtPrompt /\ IsSome(hit_breakpoint_index)) =>
        /\ IsSome(child)
        /\ tstate = "stopped"
        /\ Unwrap(hit_breakpoint_index) + 1 \in DOMAIN breakpoints
        /\ rip = breakpoints[Unwrap(hit_breakpoint_index) + 1].addr

\* C19, as stated: at the prompt a hit index is valid; and the hit index is
\* empty whenever the tracee is running or stepping, whenever a stop is
\* about to be classified, and whenever the session holds no tracee.
C19_AsStated ==
    /\ HitIndexValid
    /\ tstate \in {"running", "stepping"} => hit_breakpoint_index = None
    /\ pc \in {"wait_run", "wait_cont", "wait_stepi"} =>
           hit_breakpoint_index = None
    /\ child = None => hit_breakpoint_index = None

\* C19, amended: as stated, except that the hit index is still recorded
\* during the single step that Breakpoint::run makes for continue or stepi
\* from a hit; it is empty when the tracee runs freely, when stepi steps it
\* from a stop that is not a hit, and when a stop is classified.
C19_HitIndex ==
    /\ HitIndexValid
    /\ (tstate \in {"running", "stepping"}
         /\ pc \notin {"wait_bp_run_cont", "wait_bp_run_stepi"}) =>
           hit_breakpoint_index = None
    /\ pc \in {"wait_bp_run_cont", "wait_bp_run_stepi"} =>
           /\ IsSome(hit_breakpoint_index)
           /\ Unwrap(hit_breakpoint_index) + 1 \in DOMAIN breakpoints
    /\ pc \in {"wait_run", "wait_cont", "wait_stepi"} =>
           hit_breakpoint_index = None
    /\ child = None => hit_breakpoint_index = None

\* The tracee runs freely again after the single step from a hit.
C19_Witness ==
    /\ pc = "wait_cont"
    /\ tstate = "running"
    /\ IsSome(lastHit)
    /\ nexec = 1
    /\ hit_breakpoint_index = None

\* C20: a stop with the trap signal is reported as a hit of the breakpoint
\* at X, and the instruction pointer is rewound to X, only when the tracee
\* stopped because it executed the trap at X; when it stopped because a
\* single step was completed, the stop is reported as an interrupt and the
\* instruction pointer is left where it is.
C20_NoFalseHit ==
    [][(Classified /\ pending = Stopped("SIGTRAP")) =>
          /\ LastLine'.kind = "hit" => cause = Some(LastLine'.b)
          /\ (cause = None /\ pc' = "prompt") =>
                /\ LastLine'.kind = "interrupt"
                /\ rip' = rip
                /\ hit_breakpoint_index' = None
      ]_vars

\* ------------------------------------------------------------------------
\* SpecMem: write_data, read_data, Breakpoint::create and restore_data
\* applied to arguments drawn from bounded sets
\* ------------------------------------------------------------------------

\* A memory of bytes that occur in no buffer.
Sentinel == [a \in 0 .. MemSize - 1 |-> 160 + a]

\* Addresses: every mapped one, and the first unmapped one.
MemAddrs == 0 .. MemSize

\* Buffers: of every length up to MaxLen, of distinct bytes or of trap bytes.
Bufs ==
    {[i \in 1 .. len |-> i] : len \in 0 .. MaxLen}
        \cup {[i \in 1 .. len |-> TRAP] : len \in 0 .. MaxLen}

Call(op, tag, n, data, before, after) ==
    [op |-> op, tag |-> tag, n |-> n, data |-> data,
     before |-> before, after |-> after]

InitMem ==
    /\ pc = "prompt"
    /\ child = Some(1)
    /\ breakpoints = <<>>
    /\ breakpoints_args = <<>>
    /\ hit_breakpoint_index = None
    /\ output = <<>>
    /\ mem \in {Image, Sentinel}
    /\ rip = 0
    /\ stack = <<>>
    /\ tstate \in {"stopped", "running"}
    /\ tpid = 1
    /\ pending = NoStatus
    /\ lastHit = None
    /\ nexec = 0
    /\ script = <<>>
    /\ reports = <<>>
    /\ input \in [addr : MemAddrs, buf : Bufs]
    /\ calls = <<>>
    /\ cause = None
    /\ launch = NotLaunched

\* write_data(pid, addr, buf)
DoWrite ==
    /\ calls = <<>>
    /\ LET r == write_data(mem, Traceable(tpid), input.addr, input.buf) IN
       /\ calls' = <<Call("write", r.tag, r.n, None, mem, r.mem)>>
       /\ mem' = r.mem
    /\ UNCHANGED <<sessionVars, breakpoints, tstate, input>>

\* read_data(pid, addr, n), n the length of the buffer; alone or after a
\* write_data that returned.
DoRead ==
    /\ \/ calls = <<>>
       \/ Len(calls) = 1 /\ calls[1].op = "write" /\ calls[1].tag # "Panic"
    /\ LET r == read_data(mem, Traceable(tpid), input.addr, Len(input.buf)) IN
       calls' = Append(calls,
                    Call("read", IF IsSome(r) THEN "Some" ELSE "None",
                         Len(input.buf), r, mem, mem))
    /\ UNCHANGED <<sessionVars, breakpoints, mem, tstate, input>>

\* Breakpoint::create(addr, pid)
DoCreate ==
    /\ calls = <<>>
    /\ LET r == BpCreate(mem, Traceable(tpid), input.addr, tpid) IN
       /\ calls' = <<Call("create", IF IsSome(r.ret) THEN "Some" ELSE "None",
                          0, None, mem, r.mem)>>
       /\ breakpoints' = IF IsSome(r.ret) THEN <<Unwrap(r.ret)>> ELSE <<>>
       /\ mem' = r.mem
    /\ UNCHANGED <<sessionVars, tstate, input>>

\* restore_data() on the breakpoint just created
DoRestore ==
    /\ Len(calls) = 1 /\ calls[1].op = "create" /\ breakpoints # <<>>
    /\ LET r == BpRestoreData(mem, Traceable(tpid), breakpoints[1]) IN
       /\ calls' = Append(calls,
                      Call("restore", IF IsSome(r.ret) THEN "Some" ELSE "None",
                           0, None, mem, r.mem))
       /\ mem' = r.mem
    /\ UNCHANGED <<sessionVars, breakpoints, tstate, input>>

NextMem == DoWrite \/ DoRead \/ DoCreate \/ DoRestore

SpecMem == InitMem /\ [][NextMem]_vars

\* The target range [addr, addr + len) of the call's buffer.
InRange(a) == a >= input.addr /\ a < input.addr + Len(input.buf)

\* C6: a write_data of B at a mapped range of a stopped tracee returns Ok(())
\* and the read_data of Len(B) bytes that follows returns exactly B.
C6_RoundTrip ==
    (/\ calls # <<>>
     /\ calls[1].op = "write"
     /\ tstate = "stopped"
     /\ input.addr + Len(input.buf) <= MemSize)
    => /\ calls[1].tag = "Ok"
       /\ Len(calls) = 2 => calls[2].data = Some(input.buf)

\* C7: write_data changes no byte of tracee memory outside
\* [addr, addr + len(buf)).
C7_WriteLocality ==
    \A i \in DOMAIN calls :
        calls[i].op = "write"
        => \A a \in DOMAIN mem :
              ~InRange(a) => calls[i].after[a] = calls[i].before[a]

\* A write shorter than a word went through, and the containing word holds
\* bytes beyond the buffer.
C7_Witness ==
    /\ calls # <<>>
    /\ calls[1].op = "write"
    /\ calls[1].tag = "Ok"
    /\ Len(input.buf) > 0
    /\ Len(input.buf) < WORD_SIZE
    /\ calls[1].after # calls[1].before
    /\ calls[1].before[input.addr + WORD_SIZE - 1] # 0

\* C8: when a word access fails during write_data the result is Err(n),
\* the n leading bytes of buf are in memory and the bytes of the target
\* range from offset n on are unchanged.
C8_PartialWrite ==
    \A i \in DOMAIN calls :
        (calls[i].op = "write" /\ calls[i].tag = "Err")
        => /\ calls[i].n >= 0
           /\ calls[i].n <= Len(input.buf)
           /\ \A a \in DOMAIN mem :
                 InRange(a)
                 => IF a - input.addr < calls[i].n
                    THEN calls[i].after[a] = input.buf[a - input.addr + 1]
                    ELSE calls[i].after[a] = calls[i].before[a]
           /\ calls[i].n = 0 => calls[i].after = calls[i].before

\* A word access of a write_data of a non-empty buffer failed, on a stopped
\* tracee, at an address that is mapped.
C8_Witness ==
    /\ calls # <<>>
    /\ calls[1].op = "write"
    /\ calls[1].tag = "Err"
    /\ tstate = "stopped"
    /\ Len(input.buf) > 0
    /\ input.addr < MemSize

\* C10: Breakpoint::create followed by restore_data leaves every byte of
\* tracee memory as it was before create.
C10_CreateRestore ==
    (/\ Len(calls) = 2
     /\ calls[1].op = "create"
     /\ calls[2].op = "restore"
     /\ tstate = "stopped"
     /\ input.addr < MemSize)
    => calls[2].after = calls[1].before

\* create wrote a trap over another byte, and restore_data has run.
C10_Witness ==
    /\ Len(calls) = 2
    /\ calls[1].op = "create"
    /\ calls[2].op = "restore"
    /\ calls[1].before[input.addr] # TRAP
    /\ calls[1].after[input.addr] = TRAP
    /\ calls[2].tag = "Some"


\* ------------------------------------------------------------------------
\* SpecLaunch: launch_program step by step, the debugger and the forked
\* child interleaved
\* ------------------------------------------------------------------------

\* The pending requests a session may hold when run is given.
Requests ==
    {r \in {BreakpointArgParse(arg) : arg \in ArgStrings} : r.tag = "Address"}

RequestLists ==
    UNION {[1 .. n -> Requests] : n \in 0 .. MaxArgs}

\* A step of launch_program is recorded.
Logged(l, what) == [l EXCEPT !.log = Append(@, what)]

\* The step has been recorded.
Did(l, what) == \E i \in DOMAIN l.log : l.log[i] = what

\* The launch leaves the session's breakpoints and the tracee's image alone.
LaunchFrame ==
    UNCHANGED <<breakpoints, breakpoints_args, hit_breakpoint_index, mem, rip,
                stack, lastHit, nexec, script, reports, input, calls, cause>>

\* The debugger is at its prompt without tracee; the program named on its
\* command line can be executed or not.
InitLaunch ==
    /\ pc = "prompt"
    /\ child = None
    /\ breakpoints = <<>>
    /\ breakpoints_args \in RequestLists
    /\ hit_breakpoint_index = None
    /\ output = <<>>
    /\ mem = Image
    /\ rip = 0
    /\ stack = <<>>
    /\ tstate = "none"
    /\ tpid = 0
    /\ pending = NoStatus
    /\ lastHit = None
    /\ nexec = 0
    /\ script = <<>>
    /\ reports = <<>>
    /\ input = [addr |-> 0, buf |-> <<>>]
    /\ calls = <<>>
    /\ cause = None
    /\ launch \in {[NotLaunched EXCEPT !.exists = e] : e \in BOOLEAN}

\* fork() fails: Err(errno) => Err(errno), and run prints the error.
LaunchForkFails ==
    /\ pc = "prompt"
    /\ ~IsSome(child)
    /\ output' = <<Line("launch_error", 0, 0)>>
    /\ UNCHANGED <<pc, child, tstate, tpid, pending, launch>>
    /\ LaunchFrame

\* fork() succeeds: the parent goes to its first waitpid, the child starts.
LaunchFork ==
    /\ pc = "prompt"
    /\ ~IsSome(child)
    /\ tpid < MaxRuns
    /\ tpid' = tpid + 1
    /\ tstate' = "running"
    /\ pending' = NoStatus
    /\ launch' = [cpc |-> "traceme", traced |-> FALSE, traceexec |-> FALSE,
                  exists |-> launch.exists, log |-> <<"fork">>]
    /\ pc' = "launch_wait1"
    /\ output' = <<>>
    /\ UNCHANGED child
    /\ LaunchFrame

\* child: ptrace::traceme().unwrap()
ChildTraceme ==
    /\ launch.cpc = "traceme"
    /\ tstate = "running"
    /\ launch' = Logged([launch EXCEPT !.traced = TRUE,
                                       !.cpc = "personality"], "traceme")
    /\ UNCHANGED <<pc, child, output, tstate, tpid, pending>>
    /\ LaunchFrame

\* child: personality::set(Persona::ADDR_NO_RANDOMIZE).unwrap()
ChildPersonality ==
    /\ launch.cpc = "personality"
    /\ tstate = "running"
    /\ launch' = Logged([launch EXCEPT !.cpc = "raise"], "personality")
    /\ UNCHANGED <<pc, child, output, tstate, tpid, pending>>
    /\ LaunchFrame

\* child: raise(Signal::SIGSTOP).unwrap(): it stops, execvp comes next.
ChildRaise ==
    /\ launch.cpc = "raise"
    /\ tstate = "running"
    /\ tstate' = "stopped"
    /\ pending' = Stopped("SIGSTOP")
    /\ launch' = Logged([launch EXCEPT !.cpc = "execvp"], "raise")
    /\ UNCHANGED <<pc, child, output, tpid>>
    /\ LaunchFrame

\* child: execvp(program, ..)?. When it succeeds the image is loaded and the
\* traced child stops before its first instruction; when it fails, the ?
\* returns Err(errno) from launch_program in the child, which goes on in
\* main_loop (prints the error, asks for commands).
ChildExecvp ==
    /\ launch.cpc = "execvp"
    /\ tstate = "running"
    /\ IF launch.exists
       THEN /\ tstate' = "stopped"
            /\ pending' = Stopped("SIGTRAP")
            /\ launch' = Logged([launch EXCEPT !.cpc = "image"], "execvp")
       ELSE /\ launch' = Logged([launch EXCEPT !.cpc = "loop"],
                                "execvp fails")
            /\ UNCHANGED <<tstate, pending>>
    /\ UNCHANGED <<pc, child, output, tpid>>
    /\ LaunchFrame

\* child, in main_loop after execvp failed: a command that leaves it at its
\* prompt (here "continue": No program running).
ChildLoopCommand ==
    /\ launch.cpc = "loop"
    /\ tstate = "running"
    /\ ~Did(launch, "child: command")
    /\ launch' = Logged(launch, "child: command")
    /\ UNCHANGED <<pc, child, output, tstate, tpid, pending>>
    /\ LaunchFrame

\* child, in main_loop after execvp failed: an empty line; it holds no
\* tracee, so it exits with code 0 (main.rs:158-166).
ChildLoopExit ==
    /\ launch.cpc = "loop"
    /\ tstate = "running"
    /\ tstate' = "dead"
    /\ pending' = Exited(0)
    /\ launch' = Logged([launch EXCEPT !.cpc = "gone"], "child: exit")
    /\ UNCHANGED <<pc, child, output, tpid>>
    /\ LaunchFrame

\* parent: waitpid(child, None).unwrap(), the first
ParentWait1 ==
    /\ pc = "launch_wait1"
    /\ pending # NoStatus
    /\ pending' = NoStatus
    /\ pc' = "launch_setoptions"
    /\ launch' = Logged(launch, "waitpid 1")
    /\ UNCHANGED <<child, output, tstate, tpid>>
    /\ LaunchFrame

\* parent: ptrace::setoptions(child, PTRACE_O_TRACEEXEC).unwrap()
ParentSetoptions ==
    /\ pc = "launch_setoptions"
    /\ IF tstate = "stopped" /\ launch.traced
       THEN /\ launch' = Logged([launch EXCEPT !.traceexec = TRUE],
                                "setoptions")
            /\ pc' = "launch_cont"
       ELSE /\ pc' = "panicked"
            /\ UNCHANGED launch
    /\ UNCHANGED <<child, output, tstate, tpid, pending>>
    /\ LaunchFrame

\* parent: ptrace::cont(child, None).unwrap()
ParentCont ==
    /\ pc = "launch_cont"
    /\ IF tstate = "stopped" /\ launch.traced
       THEN /\ tstate' = "running"
            /\ launch' = Logged(launch, "cont")
            /\ pc' = "launch_wait2"
       ELSE /\ pc' = "panicked"
            /\ UNCHANGED <<tstate, launch>>
    /\ UNCHANGED <<child, output, tpid, pending>>
    /\ LaunchFrame

\* parent: waitpid(child, None).unwrap(), the second, then Ok(child): run
\* holds the pid (main.rs:192, 200).
ParentWait2 ==
    /\ pc = "launch_wait2"
    /\ pending # NoStatus
    /\ pending' = NoStatus
    /\ pc' = "launched"
    /\ child' = Some(tpid)
    /\ launch' = Logged(launch, "waitpid 2")
    /\ UNCHANGED <<output, tstate, tpid>>
    /\ LaunchFrame

NextLaunch ==
    \/ LaunchForkFails
    \/ LaunchFork
    \/ ChildTraceme
    \/ ChildPersonality
    \/ ChildRaise
    \/ ChildExecvp
    \/ ChildLoopCommand
    \/ ChildLoopExit
    \/ ParentWait1
    \/ ParentSetoptions
    \/ ParentCont
    \/ ParentWait2

SpecLaunch == InitLaunch /\ [][NextLaunch]_vars

\* What launch_program does, in order, when it returns a tracee.
Handshake ==
    <<"fork", "traceme", "personality", "raise", "waitpid 1", "setoptions",
      "cont", "execvp", "waitpid 2">>

\* C13: when fork or execvp fails, the debugger that ran launch_program is
\* back at its prompt with the error printed, without tracee and without
\* breakpoint, and it is the only process that asks for commands: the forked
\* child never does, and the debugger is never handed a pid.
C13_LaunchFailure ==
    /\ launch.cpc # "loop"
    /\ Did(launch, "execvp fails") => pc # "launched"
    /\ (AtPrompt /\ LastLine.kind = "launch_error") =>
           child = None /\ breakpoints = <<>>

\* C14: when launch_program returns a pid, that process is stopped, has the
\* target image loaded and has executed none of its instructions, and the
\* steps of the two processes were taken in the order of Handshake.
C14_Handshake ==
    pc = "launched" =>
        /\ child = Some(tpid)
        /\ tstate = "stopped"
        /\ launch.cpc = "image"
        /\ launch.traceexec
        /\ launch.log = Handshake

==========================================================================
